---- MODULE Spec2Model ----
(***************************************************************************)
(* Model of package convert (src/convert/conv.go): the conversion of Go    *)
(* values to starlark values (ToValue, MakeDict, MakeTuple, ...), the      *)
(* conversion back (FromValue, FromDict, FromKwargs, ...) and the builtin  *)
(* MakeStarFn wraps around a Go function.                                  *)
(*                                                                         *)
(* Go values are records tagged by their reflect.Kind in field k, starlark *)
(* values are records tagged by their dynamic type in field t.  A call has *)
(* one of three outcomes: it returns a value, it returns an error, or it   *)
(* panics; st tells which.                                                 *)
(***************************************************************************)
EXTENDS Integers, Sequences, FiniteSets, TLC

\* pc: "start" before the operation has run, "done" after it
\* op: the operation under way; arg: its input; ret: its outcome
\* invoked: how many times the operation has called the wrapped Go function
VARIABLES pc, op, arg, ret, invoked

vars == <<pc, op, arg, ret, invoked>>

(***************************************************************************)
(* Bounds of the model.                                                    *)
(***************************************************************************)
\* longest slice, tuple, list and map among the inputs
MaxLen == 2
\* largest number of tuples handed to FromKwargs
MaxKwargs == 2
\* largest number of positional arguments of a call
MaxArgs == 2
\* largest number of non-error return values of a wrapped function
MaxOut == 2

(***************************************************************************)
(* Integers.  starlark.Int is an arbitrary-precision integer and the       *)
(* native kinds reach 2^64-1, beyond the integers TLC computes with, so an *)
(* integer is its sign and its magnitude in three base-2^24 limbs, most    *)
(* significant first (72 bits).                                            *)
(***************************************************************************)
Limb == 2^24

Big(neg, a, b, c) == [neg |-> neg, mag |-> <<a, b, c>>]

Zero == Big(FALSE, 0, 0, 0)

\* m < n on magnitudes
MagLt(m, n) ==
    \/ m[1] < n[1]
    \/ m[1] = n[1] /\ m[2] < n[2]
    \/ m[1] = n[1] /\ m[2] = n[2] /\ m[3] < n[3]

MagLe(m, n) == m = n \/ MagLt(m, n)

\* the magnitude 2^n, n in 0..71
MagPow2(n) ==
    IF n < 24 THEN <<0, 0, 2^n>>
    ELSE IF n < 48 THEN <<0, 2^(n - 24), 0>>
    ELSE <<2^(n - 48), 0, 0>>

\* m - 1 for a magnitude m > 0
MagDec(m) ==
    IF m[3] > 0 THEN <<m[1], m[2], m[3] - 1>>
    ELSE IF m[2] > 0 THEN <<m[1], m[2] - 1, Limb - 1>>
    ELSE <<m[1] - 1, Limb - 1, Limb - 1>>

\* m + 1 for a magnitude m below 2^72 - 1
MagInc(m) ==
    IF m[3] < Limb - 1 THEN <<m[1], m[2], m[3] + 1>>
    ELSE IF m[2] < Limb - 1 THEN <<m[1], m[2] + 1, 0>>
    ELSE <<m[1] + 1, 0, 0>>

Pos(m) == [neg |-> FALSE, mag |-> m]
Neg(m) == [neg |-> TRUE, mag |-> m]

\* x <= y on integers (negative integers have a non-zero magnitude)
BigLe(x, y) ==
    IF x.neg /\ ~y.neg THEN TRUE
    ELSE IF ~x.neg /\ y.neg THEN FALSE
    ELSE IF x.neg THEN MagLe(y.mag, x.mag)
    ELSE MagLe(x.mag, y.mag)

\* the second result of starlark.Int.Int64: x is in [-2^63, 2^63-1]
Int64Ok(x) ==
    IF x.neg THEN MagLe(x.mag, MagPow2(63)) ELSE MagLt(x.mag, MagPow2(63))

\* the second result of starlark.Int.Uint64: x is in [0, 2^64-1]
Uint64Ok(x) == ~x.neg /\ MagLt(x.mag, MagPow2(64))

(***************************************************************************)
(* The kinds of reflect the code switches on, and the bits of each integer *)
(* kind (int and uint are 64 bits wide on the 64-bit platforms modelled).  *)
(***************************************************************************)
IntKinds == {"Int", "Int8", "Int16", "Int32"}
UintKinds == {"Uint", "Uint8", "Uint16", "Uint32"}
FloatKinds == {"Float32", "Float64"}
SeqKinds == {"Slice", "Array"}

KindBits(k) ==
    CASE k \in {"Int8", "Uint8"} -> 8
      [] k \in {"Int16", "Uint16"} -> 16
      [] k \in {"Int32", "Uint32"} -> 32
      [] OTHER -> 64

\* the values of a signed kind of w bits the inputs are drawn from
SignedSamples(w) ==
    { Neg(MagPow2(w - 1)), Neg(MagPow2(0)), Zero, Pos(MagPow2(0)),
      Pos(MagDec(MagPow2(w - 1))) }

\* the values of an unsigned kind of w bits the inputs are drawn from
UnsignedSamples(w) ==
    { Zero, Pos(MagPow2(0)), Pos(MagDec(MagPow2(w - 1))), Pos(MagPow2(w - 1)),
      Pos(MagDec(MagPow2(w))) }

(***************************************************************************)
(* Outcomes of a call, starlark values and errors.                         *)
(***************************************************************************)
Ok(v) == [st |-> "ok", val |-> v]
Err(e) == [st |-> "err", err |-> e]
Panic(m) == [st |-> "panic", msg |-> m]

None == [t |-> "NoneType"]
StarBool(b) == [t |-> "Bool", b |-> b]
StarInt(i) == [t |-> "Int", i |-> i]
StarFloat(f) == [t |-> "Float", f |-> f]
StarString(s) == [t |-> "String", s |-> s]
StarList(elems) == [t |-> "List", elems |-> elems]
StarTuple(elems) == [t |-> "Tuple", elems |-> elems]
StarDict(entries) == [t |-> "Dict", entries |-> entries]
StarSet(elems) == [t |-> "Set", elems |-> elems]

\* a Go interface holding a starlark.Value
GoValue(v) == [k |-> "Value", val |-> v]

\* the error of ToValue for a value it does not support
Unsupported(v) == [e |-> "unsupported", kind |-> v.k]

\* index of the first outcome of rs that is not ok, 0 when all are
FirstBad(rs) ==
    IF \E i \in 1..Len(rs) : rs[i].st # "ok"
    THEN CHOOSE i \in 1..Len(rs) :
            /\ rs[i].st # "ok"
            /\ \A j \in 1..(i - 1) : rs[j].st = "ok"
    ELSE 0

(***************************************************************************)
(* The starlark runtime: which values a Dict or Set accepts as a key, and  *)
(* Dict.SetKey, Dict.Get and Set.Insert on insertion-ordered entries.      *)
(***************************************************************************)
RECURSIVE Hashable(_)
Hashable(v) ==
    CASE v.t \in {"List", "Dict", "Set"} -> FALSE
      [] v.t = "Tuple" -> \A i \in 1..Len(v.elems) : Hashable(v.elems[i])
      [] OTHER -> TRUE

\* entries with key k bound to v: an existing key keeps its place
PutEntry(entries, k, v) ==
    IF \E i \in 1..Len(entries) : entries[i][1] = k
    THEN [i \in 1..Len(entries) |->
            IF entries[i][1] = k THEN <<k, v>> ELSE entries[i]]
    ELSE Append(entries, <<k, v>>)

\* Dict.SetKey: the entries afterwards and the error it returns
SetKey(entries, k, v) ==
    IF Hashable(k)
    THEN [entries |-> PutEntry(entries, k, v), err |-> [e |-> "nil"]]
    ELSE [entries |-> entries, err |-> [e |-> "unhashable", type |-> k.t]]

\* Set.Insert: the elements afterwards and the error it returns
SetInsert(elems, k) ==
    IF Hashable(k)
    THEN [elems |-> IF \E i \in 1..Len(elems) : elems[i] = k
                    THEN elems ELSE Append(elems, k),
          err |-> [e |-> "nil"]]
    ELSE [elems |-> elems, err |-> [e |-> "unhashable", type |-> k.t]]

\* Dict.Get of a key the Dict holds
DictGet(entries, k) ==
    entries[CHOOSE i \in 1..Len(entries) : entries[i][1] = k][2]

\* the Record Projector's NewStruct: an opaque handle on the Go value
NewStruct(v) == [t |-> "Struct", rec |-> v]

\* a function wrapped by MakeStarFn: the builtin's name and the Go function
Builtin(name, gofn) == [t |-> "Builtin", name |-> name, fn |-> gofn]

(***************************************************************************)
(* ToValue and the constructors it dispatches to.                          *)
(***************************************************************************)
\* kind after the one level of indirection ToValue resolves (val.Elem().Kind())
ElemKind(v) == IF v.isnil THEN "Invalid" ELSE v.elem.k

\* MakeStarFn: the builtin around gofn; a panic when gofn is no function
MakeStarFn(name, gofn) ==
    IF gofn.k # "Func" THEN Panic("fn is not a function")
    ELSE Ok(Builtin(name, gofn))

\* starlark.MakeInt and MakeInt64, MakeUint and MakeUint64: the Int of that value
MakeInt(x) == StarInt(x)
MakeUint(x) == StarInt(x)

\* the conversions int(val.Int()) and uint(val.Uint()): int and uint are 64 bits
\* wide like the int64 and uint64 they convert, so every value is kept
IntCast(x) == x

RECURSIVE ToValue(_), makeVals(_), MakeDictLoop(_, _, _), MakeDict(_), MakeList(_)

ToValue(v) ==
    IF v.k = "Value" THEN Ok(v.val)
    ELSE
    LET kind == IF v.k = "Ptr" THEN ElemKind(v) ELSE v.k IN
    CASE kind = "Bool" ->
            IF v.k = "Ptr" THEN Panic("call of reflect.Value.Bool on ptr Value")
            ELSE Ok(StarBool(v.b))
      [] kind \in IntKinds \cup {"Int64"} ->
            IF v.k = "Ptr" THEN Panic("call of reflect.Value.Int on ptr Value")
            ELSE Ok(MakeInt(IntCast(v.i)))
      [] kind \in UintKinds \cup {"Uint64"} ->
            IF v.k = "Ptr" THEN Panic("call of reflect.Value.Uint on ptr Value")
            ELSE Ok(MakeUint(IntCast(v.i)))
      [] kind \in FloatKinds ->
            IF v.k = "Ptr" THEN Panic("call of reflect.Value.Float on ptr Value")
            ELSE Ok(StarFloat(v.f))
      [] kind = "Func" -> MakeStarFn("fn", v)
      [] kind = "Map" -> MakeDict(v)
      [] kind = "String" ->
            \* reflect.Value.String does not panic on another kind
            IF v.k = "Ptr" THEN Ok(StarString("<*string Value>"))
            ELSE Ok(StarString(v.s))
      [] kind \in SeqKinds -> MakeList(v)
      [] kind = "Struct" -> Ok(NewStruct(v))
      [] OTHER -> Err(Unsupported(v))

makeVals(v) ==
    IF v.k \notin SeqKinds THEN Panic("value should be slice or array")
    ELSE
    LET rs == [i \in 1..Len(v.elems) |-> ToValue(v.elems[i])]
        bad == FirstBad(rs)
    IN  IF bad = 0
        THEN [st |-> "ok", vals |-> [i \in 1..Len(rs) |-> rs[i].val]]
        ELSE rs[bad]

\* the loop of MakeDict over r.MapKeys(), from entry i on
MakeDictLoop(entries, i, dict) ==
    IF i > Len(entries) THEN Ok(StarDict(dict))
    ELSE
    LET key == ToValue(entries[i][1]) IN
    IF key.st # "ok" THEN key
    ELSE
    LET val == ToValue(entries[i][2]) IN
    IF val.st # "ok" THEN val
    ELSE MakeDictLoop(entries, i + 1, SetKey(dict, key.val, val.val).entries)

MakeDict(v) ==
    IF v.k # "Map" THEN Panic("can't make map")
    ELSE MakeDictLoop(v.entries, 1, <<>>)

MakeTuple(v) ==
    LET r == makeVals(v) IN
    IF r.st = "ok" THEN Ok(StarTuple(r.vals)) ELSE r

MakeList(v) ==
    LET r == makeVals(v) IN
    IF r.st = "ok" THEN Ok(StarList(r.vals)) ELSE r

\* the loop of MakeSet over the keys of the map, from key i on
RECURSIVE MakeSetLoop(_, _, _)
MakeSetLoop(entries, i, set) ==
    IF i > Len(entries) THEN Ok(StarSet(set))
    ELSE
    LET key == ToValue(entries[i][1]) IN
    IF key.st # "ok" THEN key
    ELSE
    LET ins == SetInsert(set, key.val) IN
    IF ins.err.e # "nil" THEN Err(ins.err)
    ELSE MakeSetLoop(entries, i + 1, ins.elems)

MakeSet(s) == MakeSetLoop(s.entries, 1, <<>>)

(***************************************************************************)
(* FromValue and the conversions it dispatches to.  The Go values they     *)
(* return: bool, int64, uint64, float64, string, []interface{},            *)
(* map[interface{}]interface{} and map[interface{}]bool.                   *)
(***************************************************************************)
GoBool(b) == [k |-> "Bool", b |-> b]
GoInt64(i) == [k |-> "Int64", i |-> i]
GoUint64(i) == [k |-> "Uint64", i |-> i]
GoFloat64(f) == [k |-> "Float64", f |-> f]
GoString(s) == [k |-> "String", s |-> s]
GoSlice(elems) == [k |-> "Slice", elems |-> elems]
GoMap(entries) == [k |-> "Map", entries |-> entries]

\* whether Go can hash the value as a key of a map[interface{}]...; an
\* assignment m[key] = v under another key panics at run time
GoHashable(n) == n.k \notin {"Slice", "Map", "Func"}

RECURSIVE FromValue(_), FromTuple(_), FromList(_), FromDict(_), FromSet(_)

\* the loops of FromTuple and FromList: the decoded elements, in order
FromSeq(elems) ==
    LET rs == [i \in 1..Len(elems) |-> FromValue(elems[i])]
        bad == FirstBad(rs)
    IN  IF bad = 0 THEN Ok(GoSlice([i \in 1..Len(rs) |-> rs[i].val]))
        ELSE rs[bad]

\* the loop of FromDict over m.Keys(), from key i on
RECURSIVE FromDictLoop(_, _, _)
FromDictLoop(entries, i, m) ==
    IF i > Len(entries) THEN Ok(GoMap(m))
    ELSE
    LET key == FromValue(entries[i][1]) IN
    IF key.st # "ok" THEN key
    ELSE
    LET val == DictGet(entries, entries[i][1]) IN
    IF ~GoHashable(key.val) THEN Panic("runtime error: hash of unhashable type")
    ELSE FromDictLoop(entries, i + 1, PutEntry(m, key.val, GoValue(val)))

\* the loop of FromSet over the elements, from element i on
RECURSIVE FromSetLoop(_, _, _)
FromSetLoop(elems, i, m) ==
    IF i > Len(elems) THEN Ok(GoMap(m))
    ELSE
    LET val == FromValue(elems[i]) IN
    IF val.st # "ok" THEN val
    ELSE IF ~GoHashable(val.val)
    THEN Panic("runtime error: hash of unhashable type")
    ELSE FromSetLoop(elems, i + 1, PutEntry(m, val.val, GoBool(TRUE)))

\* FromValue with the two integer tests in the other order
FromValue_UnsignedFirst(v) ==
    CASE v.t = "Bool" -> Ok(GoBool(v.b))
      [] v.t = "Int" ->
            IF Uint64Ok(v.i) THEN Ok(GoUint64(v.i))
            ELSE IF Int64Ok(v.i) THEN Ok(GoInt64(v.i))
            ELSE Panic("can't convert starlark.Int to int")
      [] v.t = "Float" -> Ok(GoFloat64(v.f))
      [] v.t = "String" -> Ok(GoString(v.s))
      [] v.t = "List" -> FromList(v)
      [] v.t = "Tuple" -> FromTuple(v)
      [] v.t = "Dict" -> FromDict(v)
      [] v.t = "Set" -> FromSet(v)
      [] v.t = "Struct" -> Ok(v.rec)
      [] OTHER -> Ok(GoValue(v))

FromValue(v) ==
    CASE v.t = "Bool" -> Ok(GoBool(v.b))
      [] v.t = "Int" ->
            IF Int64Ok(v.i) THEN Ok(GoInt64(v.i))
            ELSE IF Uint64Ok(v.i) THEN Ok(GoUint64(v.i))
            ELSE Panic("can't convert starlark.Int to int")
      [] v.t = "Float" -> Ok(GoFloat64(v.f))
      [] v.t = "String" -> Ok(GoString(v.s))
      [] v.t = "List" -> FromList(v)
      [] v.t = "Tuple" -> FromTuple(v)
      [] v.t = "Dict" -> FromDict(v)
      [] v.t = "Set" -> FromSet(v)
      [] v.t = "Struct" -> Ok(v.rec)
      [] OTHER -> Ok(GoValue(v))

FromTuple(v) == FromSeq(v.elems)
FromList(l) == FromSeq(l.elems)
FromDict(m) == FromDictLoop(m.entries, 1, <<>>)
FromSet(s) == FromSetLoop(s.elems, 1, <<>>)

\* the loop of FromKwargs over the tuples, from tuple i on
RECURSIVE FromKwargsLoop(_, _, _)
FromKwargsLoop(kwargs, i, args) ==
    IF i > Len(kwargs) THEN [st |-> "ok", kwargs |-> args]
    ELSE
    LET tup == FromTuple(kwargs[i]) IN
    IF tup.st # "ok" THEN tup
    ELSE IF Len(tup.val.elems) # 2
    THEN Err([e |-> "kwarg tuple should have 2 vals", has |-> Len(tup.val.elems)])
    ELSE IF tup.val.elems[1].k # "String"
    THEN Err([e |-> "expected name of kwarg to be string",
              was |-> tup.val.elems[1].k])
    ELSE FromKwargsLoop(kwargs, i + 1,
            Append(args, [Name |-> tup.val.elems[1].s,
                          Value |-> tup.val.elems[2]]))

FromKwargs(kwargs) == FromKwargsLoop(kwargs, 1, <<>>)

(***************************************************************************)
(* The builtin MakeStarFn returns: the call of a wrapped Go function.  A   *)
(* Go function is its parameter types (in) and its result types (out);     *)
(* outs are the values the Go function returns when it is called.          *)
(***************************************************************************)
NilErr == [e |-> "nil"]

GoFunc(in, out) == [k |-> "Func", in |-> in, out |-> out]

\* a value of type error: nil, or the error named id
GoNilError == [k |-> "Error", isnil |-> TRUE]
GoError(id) == [k |-> "Error", isnil |-> FALSE, id |-> id]

\* the dynamic type of a value FromValue returns (reflect.ValueOf(v).Type())
TypeOf(n) ==
    CASE n.k = "Bool" -> "bool"
      [] n.k = "Int64" -> "int64"
      [] n.k = "Uint64" -> "uint64"
      [] n.k = "Float64" -> "float64"
      [] n.k = "String" -> "string"
      [] n.k = "Slice" -> "[]interface {}"
      [] n.k = "Map" -> "map[interface {}]interface {}"
      [] n.k = "Value" -> n.val.t
      [] OTHER -> n.k

NumericTypes ==
    {"int", "int8", "int16", "int32", "int64", "uint", "uint8", "uint16",
     "uint32", "uint64", "float32", "float64"}

\* whether reflect.Value.Convert converts a value of type from to type to
\* (Go's conversion rules, for the types of the model); it panics otherwise
ConvertibleTo(from, to) ==
    \/ to = "interface {}"
    \/ from \in NumericTypes /\ to \in NumericTypes
    \/ from \in {"int64", "uint64"} /\ to = "string"

\* one round of the loop over vals: the reflect.Value handed to the function
Coerce(n, argT) ==
    IF TypeOf(n) = argT THEN Ok([type |-> argT, of |-> n])
    ELSE IF ConvertibleTo(TypeOf(n), argT) THEN Ok([type |-> argT, of |-> n])
    ELSE Panic("reflect.Value.Convert: value cannot be converted")

\* what the builtin returns: a value and an error, after invoked calls of gofn
Return(v, err, n) == [st |-> "ret", val |-> v, err |-> err, invoked |-> n]
Crash(m, n) == [st |-> "panic", msg |-> m, invoked |-> n]

\* the builtin from the call of gofn on: out are the values gofn returned
Pack(gofn, out) ==
    IF Len(out) = 0 THEN Return(None, NilErr, 1)
    ELSE
    LET last == out[Len(out)]
        isErr == gofn.out[Len(out)] = "error"
        err == IF isErr /\ ~last.isnil THEN [e |-> "native", id |-> last.id]
               ELSE NilErr
        rest == IF isErr THEN SubSeq(out, 1, Len(out) - 1) ELSE out
    IN
    IF Len(rest) = 1
    THEN LET r == ToValue(rest[1]) IN
         CASE r.st = "panic" -> Crash(r.msg, 1)
           [] r.st = "err" -> Return(None, r.err, 1)
           [] OTHER -> Return(r.val, err, 1)
    ELSE LET r == MakeTuple(GoSlice(rest))
             tup == IF r.st = "ok" THEN r.val ELSE StarTuple(<<>>)
             err2 == IF r.st = "err" THEN r.err ELSE NilErr
         IN  IF r.st = "panic" THEN Crash(r.msg, 1)
             ELSE IF err # NilErr THEN Return(None, err2, 1)
             ELSE Return(tup, err, 1)

\* the builtin past its check of the argument count: the arguments are
\* decoded and coerced, and gofn is called on them
Invoke(gofn, args, outs) ==
    LET vals == FromTuple(StarTuple(args)) IN
    IF vals.st = "panic" THEN Crash(vals.msg, 0)
    ELSE
    LET rvs == [i \in 1..Len(args) |-> Coerce(vals.val.elems[i], gofn.in[i])]
        bad == FirstBad(rvs)
    IN  IF bad # 0 THEN Crash(rvs[bad].msg, 0)
        ELSE Pack(gofn, outs)

\* BuiltinCall without its check of the argument count: reflect panics on
\* the call with the wrong number of arguments
BuiltinCall_Unchecked(gofn, args, outs) ==
    IF Len(args) # Len(gofn.in)
    THEN Crash("reflect: Call with wrong number of input arguments", 0)
    ELSE Invoke(gofn, args, outs)

\* the builtin called with the positional arguments args
BuiltinCall(gofn, args, outs) ==
    IF Len(args) # Len(gofn.in)
    THEN Return(None,
                [e |-> "arity", expected |-> Len(gofn.in), got |-> Len(args)], 0)
    ELSE Invoke(gofn, args, outs)

(***************************************************************************)
(* The inputs the operations are run on.                                   *)
(***************************************************************************)
SeqsUpTo(S, n) == UNION { [1..m -> S] : m \in 0..n }

\* the entry lists among es whose keys are pairwise different
DistinctKeys(es) ==
    { e \in es : \A i, j \in 1..Len(e) : i # j => e[i][1] # e[j][1] }

One == Pos(MagPow2(0))

GoInt(kind, i) == [k |-> kind, i |-> i]
GoPtr(elem) == [k |-> "Ptr", isnil |-> FALSE, elem |-> elem]
GoNilPtr == [k |-> "Ptr", isnil |-> TRUE]
GoChan == [k |-> "Chan"]
GoNil == [k |-> "Invalid"]
GoArray(elems) == [k |-> "Array", elems |-> elems]

\* every Go integer of the model: each kind with the values at its limits
GoInts ==
    UNION { { GoInt(kind, i) : i \in SignedSamples(KindBits(kind)) } :
            kind \in IntKinds \cup {"Int64"} }
    \cup
    UNION { { GoInt(kind, i) : i \in UnsignedSamples(KindBits(kind)) } :
            kind \in UintKinds \cup {"Uint64"} }

GoBools == { GoBool(b) : b \in BOOLEAN }
GoStrings == { GoString(s) : s \in {"", "a"} }
GoFloats == { [k |-> kind, f |-> f] : kind \in FloatKinds, f \in {"0.5", "2.0"} }

\* the bools, strings and integers round trips are run on
GoScalars == GoBools \cup GoStrings \cup GoInts

\* elements of the slices and arrays, keys and values of the maps
GoElems == { GoInt("Int", One), GoString("a"), GoChan }
GoKeys == { GoString("a"), GoInt("Int8", One), GoArray(<<GoInt("Int", One)>>),
            GoChan }

GoSlices == { GoSlice(e) : e \in SeqsUpTo(GoElems, MaxLen) }
GoArrays == { GoArray(e) : e \in SeqsUpTo(GoElems, MaxLen) }
GoMaps == { GoMap(e) : e \in DistinctKeys(SeqsUpTo(GoKeys \X GoElems, MaxLen)) }
GoFuncs == { GoFunc(<<"int64">>, <<"int64", "error">>) }
GoStructs == { [k |-> "Struct", name |-> "Point"] }

\* what pointers point to: one value of every kind ToValue supports, and a chan
Pointees ==
    { GoBool(TRUE), GoInt("Int", One), GoInt("Int8", One), GoInt("Int64", One),
      GoInt("Uint", One), GoInt("Uint64", One), [k |-> "Float64", f |-> "0.5"],
      GoString("a"), GoSlice(<<GoInt("Int", One)>>),
      GoArray(<<GoInt("Int", One)>>), GoMap(<< <<GoString("a"), GoInt("Int", One)>> >>),
      GoChan } \cup GoFuncs
GoPtrs == { GoPtr(x) : x \in Pointees } \cup { GoNilPtr }

\* the Go values ToValue is run on
Natives ==
    GoScalars \cup GoFloats \cup GoSlices \cup GoArrays \cup GoMaps \cup GoFuncs
    \cup GoStructs \cup GoPtrs \cup { GoChan, GoNil, GoValue(None) }

\* the integers a script can compute: in and beyond the 64-bit ranges
StarInts ==
    { StarInt(i) : i \in
        { Zero, One, Neg(MagPow2(0)),
          Pos(MagDec(MagPow2(63))), Pos(MagPow2(63)), Pos(MagDec(MagPow2(64))),
          Pos(MagPow2(64)), Neg(MagPow2(63)), Neg(MagInc(MagPow2(63))) } }

StarScalars ==
    StarInts \cup { None, StarBool(TRUE), StarBool(FALSE), StarFloat("0.5"),
                    StarString("a"), StarString("") }

\* elements of the lists, tuples and sets, keys and values of the dicts
StarElems == { StarInt(One), StarString("a"), StarInt(Pos(MagPow2(64))) }
StarKeys == { StarString("a"), StarInt(One), StarTuple(<<StarInt(One)>>) }
StarVals == { StarInt(One), StarString("b"), StarList(<<StarInt(One)>>) }

StarLists == { StarList(e) : e \in SeqsUpTo(StarElems, MaxLen) }
StarTuples == { StarTuple(e) : e \in SeqsUpTo(StarElems, MaxLen) }
StarDicts ==
    { StarDict(e) : e \in DistinctKeys(SeqsUpTo(StarKeys \X StarVals, MaxLen)) }
StarSets ==
    { StarSet(e) : e \in { x \in SeqsUpTo(StarKeys, MaxLen) :
                            \A i, j \in 1..Len(x) : i # j => x[i] # x[j] } }

\* the starlark values FromValue is run on
Values ==
    StarScalars \cup StarLists \cup StarTuples \cup StarDicts \cup StarSets
    \cup { Builtin("fn", f) : f \in GoFuncs } \cup { NewStruct(x) : x \in GoStructs }

\* the tuples a kwargs list is made of: well formed, too long, too short,
\* with a name that is no string, with a value FromValue cannot decode
KwTuples ==
    { StarTuple(<<StarString("x"), StarInt(One)>>),
      StarTuple(<<StarString("y"), StarString("a")>>),
      StarTuple(<<StarString("x"), StarInt(One), StarInt(One)>>),
      StarTuple(<<StarString("x")>>),
      StarTuple(<<StarInt(One), StarString("x")>>),
      StarTuple(<<StarString("z"), StarInt(Pos(MagPow2(64)))>>) }

KwargLists == SeqsUpTo(KwTuples, MaxKwargs)

\* the calls of a builtin: the wrapped function, the arguments of the call
\* and the values the function returns if it is called
ParamTypes == {"int64", "uint8", "interface {}"}
ResultTypes == {"int64", "chan int"}
CallArgs == { StarInt(One), StarString("a"), StarInt(Pos(MagPow2(64))) }

\* the values a Go function can return in a result of type ty
ResultValues(ty) ==
    CASE ty = "int64" -> { GoInt("Int64", One) }
      [] ty = "chan int" -> { GoChan }
      [] ty = "error" -> { GoNilError, GoError("E1"), GoError("E2") }

ResultLists ==
    { o \in SeqsUpTo(ResultTypes \cup {"error"}, MaxOut + 1) :
        /\ \A i \in 1..(Len(o) - 1) : o[i] # "error"
        /\ Len(o) = MaxOut + 1 => o[Len(o)] = "error" }

\* the value lists a function of result types out can return
Outs(out) ==
    { o \in [1..Len(out) ->
                UNION { ResultValues(ty) : ty \in ResultTypes \cup {"error"} }] :
        \A i \in 1..Len(o) : o[i] \in ResultValues(out[i]) }

\* a call: the wrapped function, the arguments, the values it returns
Call(fn, args, outs) == [fn |-> fn, args |-> args, outs |-> outs]

\* the maps MakeSet is run on
GoSetMaps ==
    { GoMap(e) : e \in DistinctKeys(SeqsUpTo(GoKeys \X {GoBool(TRUE)}, MaxLen)) }

(***************************************************************************)
(* The state machine: an operation of the package is picked with an input, *)
(* it runs, and the value ToValue returned may then be decoded again.      *)
(***************************************************************************)
NoRet == [st |-> "none"]

InputsOf(o) ==
    CASE o = "ToValue" -> Natives
      [] o = "FromValue" -> Values
      [] o = "MakeDict" -> GoMaps \cup { GoChan }
      [] o = "FromDict" -> StarDicts
      [] o = "MakeSet" -> GoSetMaps
      [] o = "MakeTuple" -> GoSlices \cup GoArrays
      [] o = "FromKwargs" -> KwargLists

Ops == {"ToValue", "FromValue", "MakeDict", "FromDict", "MakeSet", "MakeTuple",
        "FromKwargs"}

Init ==
    /\ pc = "start"
    /\ ret = NoRet
    /\ invoked = 0
    /\ \/ /\ op \in Ops
          /\ arg \in InputsOf(op)
       \/ /\ op = "Call"
          /\ \E in \in SeqsUpTo(ParamTypes, MaxArgs), out \in ResultLists :
                \E args \in SeqsUpTo(CallArgs, MaxArgs + 1), o \in Outs(out) :
                    arg = Call(GoFunc(in, out), args, o)

\* the operation o returns r
Finish(o, r) ==
    /\ pc = "start"
    /\ op = o
    /\ pc' = "done"
    /\ ret' = r
    /\ UNCHANGED <<op, arg, invoked>>

DoToValue == Finish("ToValue", ToValue(arg))

DoFromValue == Finish("FromValue", FromValue(arg))

DoMakeDict == Finish("MakeDict", MakeDict(arg))

DoFromDict == Finish("FromDict", FromDict(arg))

DoMakeSet == Finish("MakeSet", MakeSet(arg))

DoMakeTuple == Finish("MakeTuple", MakeTuple(arg))

DoFromKwargs == Finish("FromKwargs", FromKwargs(arg))

\* a script calls the builtin arg.fn is wrapped in
DoCall ==
    /\ pc = "start"
    /\ op = "Call"
    /\ pc' = "done"
    /\ ret' = BuiltinCall(arg.fn, arg.args, arg.outs)
    /\ invoked' = ret'.invoked
    /\ UNCHANGED <<op, arg>>

\* the value ToValue returned is handed to FromValue
DoRoundTrip ==
    /\ pc = "done"
    /\ op = "ToValue"
    /\ ret.st = "ok"
    /\ pc' = "decoded"
    /\ ret' = FromValue(ret.val)
    /\ UNCHANGED <<op, arg, invoked>>

Next ==
    \/ DoToValue
    \/ DoFromValue
    \/ DoMakeDict
    \/ DoFromDict
    \/ DoMakeSet
    \/ DoMakeTuple
    \/ DoFromKwargs
    \/ DoCall
    \/ DoRoundTrip

Spec == Init /\ [][Next]_vars

(***************************************************************************)
(* Properties.                                                             *)
(***************************************************************************)
\* a call that has run, and one in which the Go function was called
Called == pc = "done" /\ op = "Call"
Invoked == Called /\ invoked = 1

\* the wrapped function's last result type is error
HasErrSlot(fn) == Len(fn.out) > 0 /\ fn.out[Len(fn.out)] = "error"

\* the values the function returned without the trailing error
NonErrOuts(a) ==
    IF HasErrSlot(a.fn) THEN SubSeq(a.outs, 1, Len(a.outs) - 1) ELSE a.outs

\* the function returned a non-nil trailing error
ReturnedErr(a) == HasErrSlot(a.fn) /\ ~a.outs[Len(a.outs)].isnil

\* C1: a call in which the wrapped function returns a non-nil trailing error
\* returns exactly that error, whatever the number of the other results.
C1_NativeErrorSurfaced ==
    (Invoked /\ ReturnedErr(arg)) =>
        /\ ret.st = "ret"
        /\ ret.err = [e |-> "native", id |-> arg.outs[Len(arg.outs)].id]

\* C2: a call of a function with no result besides a trailing error, made
\* with the right number of arguments, has None as its value, never a Tuple.
C2_NoResultIsNone ==
    (Invoked /\ Len(NonErrOuts(arg)) = 0) =>
        /\ ret.st = "ret"
        /\ ret.val = None

\* the error the builtin returns for n arguments to a function of m parameters
ArityError(m, n) == [e |-> "arity", expected |-> m, got |-> n]

\* every integer among the arguments vs is in [-2^63, 2^64-1]
IntsIn64Bits(vs) ==
    \A i \in 1..Len(vs) :
        vs[i].t = "Int" => /\ BigLe(Neg(MagPow2(63)), vs[i].i)
                           /\ BigLe(vs[i].i, Pos(MagDec(MagPow2(64))))

\* C3 as stated (on the calls whose integer arguments fit in 64 bits, those
\* FromValue decodes): a call with another number of arguments than the
\* function has parameters returns the error naming both counts and does not
\* call the function; a call with that number calls it exactly once.
C3_ArityOrInvokedOnce ==
    (Called /\ IntsIn64Bits(arg.args)) =>
        IF Len(arg.args) # Len(arg.fn.in)
        THEN /\ ret.st = "ret"
             /\ ret.err = ArityError(Len(arg.fn.in), Len(arg.args))
             /\ invoked = 0
        ELSE invoked = 1

\* the argument v of a call decodes, and what it decodes to is of the
\* parameter type ty or converts to it
ArgFits(v, ty) ==
    /\ IntsIn64Bits(<<v>>)
    /\ \/ ty = "interface {}"
       \/ v.t = "Int" /\ ty \in {"int64", "uint8"}

\* C3, amended: with another number of arguments the call returns the error
\* naming both counts without decoding an argument or calling the function;
\* with that number it calls the function once if every argument decodes and
\* converts to its parameter's type, and panics without calling it if not.
\* (ArgFits spells the conversions out for ParamTypes and CallArgs.)
C3_ArityThenCoercion ==
    Called =>
        IF Len(arg.args) # Len(arg.fn.in)
        THEN /\ ret.st = "ret"
             /\ ret.val = None
             /\ ret.err = ArityError(Len(arg.fn.in), Len(arg.args))
             /\ invoked = 0
        ELSE IF \A i \in 1..Len(arg.args) : ArgFits(arg.args[i], arg.fn.in[i])
        THEN invoked = 1
        ELSE invoked = 0 /\ ret.st = "panic"

\* a call with too many arguments, one of them beyond 64 bits, is refused
\* with the arity error
C3_Witness_Mismatch ==
    /\ Called
    /\ Len(arg.args) > Len(arg.fn.in)
    /\ \E i \in 1..Len(arg.args) : arg.args[i] = StarInt(Pos(MagPow2(64)))
    /\ ret.st = "ret"
    /\ ret.err.e = "arity"
    /\ invoked = 0

\* C4: the map FromDict returns holds, for every entry of the Dict, the
\* decoded key bound to the decoded value.
C4_DictValuesDecoded ==
    (/\ pc = "done"
     /\ op = "FromDict" \/ (op = "FromValue" /\ arg.t = "Dict")
     /\ ret.st = "ok") =>
        \A i \in 1..Len(arg.entries) :
            \E j \in 1..Len(ret.val.entries) :
                /\ Ok(ret.val.entries[j][1]) = FromValue(arg.entries[i][1])
                /\ Ok(ret.val.entries[j][2]) = FromValue(arg.entries[i][2])

SupportedKinds ==
    {"Bool", "Int64", "Uint64", "Func", "Map", "String"}
    \cup IntKinds \cup UintKinds \cup FloatKinds \cup SeqKinds

\* C5: ToValue of a non-nil pointer to a value of a supported kind returns
\* what ToValue of that value returns.
C5_PointerResolved ==
    (/\ pc = "done"
     /\ op = "ToValue"
     /\ arg.k = "Ptr"
     /\ ~arg.isnil
     /\ arg.elem.k \in SupportedKinds) =>
        ret = ToValue(arg.elem)

MaxInt64 == Pos(MagDec(MagPow2(63)))

\* C6: a Go bool, string or integer encoded by ToValue and decoded by
\* FromValue has the value it had; an integer comes back as an int64 when it
\* is at most 2^63-1, as a uint64 when it is larger, never narrower.
C6_ScalarRoundTrip ==
    /\ (pc = "done" /\ op = "ToValue" /\ arg \in GoScalars) => ret.st = "ok"
    /\ (pc = "decoded" /\ arg \in GoScalars) =>
        /\ ret.st = "ok"
        /\ arg.k = "Bool" => ret.val = GoBool(arg.b)
        /\ arg.k = "String" => ret.val = GoString(arg.s)
        /\ arg \in GoInts =>
            /\ ret.val.k \in {"Int64", "Uint64"}
            /\ ret.val.i = arg.i
            /\ ret.val.k = "Int64" <=> BigLe(arg.i, MaxInt64)

\* the uint64 2^63 has come back as the uint64 2^63
C6_Witness_Unsigned ==
    /\ pc = "decoded"
    /\ arg = GoInt("Uint64", Pos(MagPow2(63)))
    /\ ret = Ok(GoUint64(Pos(MagPow2(63))))

\* the tuple t of a kwargs list has two elements, the first a String
WellFormed(t) == Len(t.elems) = 2 /\ t.elems[1].t = "String"

\* C7: FromKwargs returns one Kwarg per tuple, in order, with the decoded
\* name and value, when every tuple is well formed, and an error with no
\* list when one is not.
C7_KwargsAllOrNothing ==
    (pc = "done" /\ op = "FromKwargs") =>
        IF \A i \in 1..Len(arg) : WellFormed(arg[i])
        THEN /\ ret.st = "ok"
             /\ Len(ret.kwargs) = Len(arg)
             /\ \A i \in 1..Len(arg) :
                    /\ ret.kwargs[i].Name = arg[i].elems[1].s
                    /\ Ok(ret.kwargs[i].Value) = FromValue(arg[i].elems[2])
        ELSE ret.st = "err"

\* FromKwargs on the lists none of whose tuples holds an integer beyond 64
\* bits: the Kwarg list in order, or an error and no list
KwargsAllOrNothingIn64Bits ==
    (/\ pc = "done"
     /\ op = "FromKwargs"
     /\ \A i \in 1..Len(arg) : IntsIn64Bits(arg[i].elems)) =>
        IF \A i \in 1..Len(arg) : WellFormed(arg[i])
        THEN /\ ret.st = "ok"
             /\ Len(ret.kwargs) = Len(arg)
             /\ \A i \in 1..Len(arg) :
                    /\ ret.kwargs[i].Name = arg[i].elems[1].s
                    /\ Ok(ret.kwargs[i].Value) = FromValue(arg[i].elems[2])
        ELSE ret = Err(ret.err)

\* C8: when the function returns with a nil error and a result ToValue does
\* not support, the call returns ToValue's error, for one result and for more.
C8_EncodingErrorSurfaced ==
    (/\ Invoked
     /\ ~ReturnedErr(arg)
     /\ \E i \in 1..Len(NonErrOuts(arg)) : NonErrOuts(arg)[i] = GoChan) =>
        /\ ret.st = "ret"
        /\ ret.err = Unsupported(GoChan)

\* C9: the Dict MakeDict returns holds an entry under the encoded key of
\* every key of the map; a key that cannot be encoded or inserted is an error.
C9_NoEntryDropped ==
    (/\ pc = "done"
     /\ op = "MakeDict" \/ (op = "ToValue" /\ arg.k = "Map")
     /\ ret.st = "ok") =>
        \A i \in 1..Len(arg.entries) :
            /\ ToValue(arg.entries[i][1]).st = "ok"
            /\ \E j \in 1..Len(ret.val.entries) :
                    ret.val.entries[j][1] = ToValue(arg.entries[i][1]).val

\* C10: no operation that decodes a starlark integer, as the value itself,
\* an element, a key or an argument of a call, takes FromValue's panic.
C10_IntPanicUnreachable ==
    (pc = "done" /\ op \in {"FromValue", "FromDict", "FromKwargs", "Call"}) =>
        ~(ret.st = "panic" /\ ret.msg = "can't convert starlark.Int to int")

====
